---- MODULE Spec2Model ----
(***************************************************************************)
(* A model of quiz_game.py: the MultipleChoiceQuestion value, the two      *)
(* network calls fetch_random_question and check_answer, and the game loop *)
(* of main().  The quiz server and the player are the environment: every   *)
(* reply of the server and every batch of pygame events is drawn from a    *)
(* small set.                                                              *)
(***************************************************************************)
EXTENDS Integers, Sequences, FiniteSets, TLC

VARIABLES
    pc,               \* position in main(): "start", "poll", "events", "end", "exited", "crashed"
    question,         \* main's local `question`
    selected_option,  \* main's local `selected_option`
    score,            \* main's local `score`
    game_running,     \* main's local `game_running`
    events,           \* the part of the list returned by pygame.event.get() not yet iterated
    screen,           \* what the last pygame.display.flip() showed
    error,            \* the exception that ended the process, if any
    sent,             \* the requests.get calls of the latest step, each with its reply
    trail             \* the latest Down/Up events handled in a row, each with selected_option before it

vars == <<pc, question, selected_option, score, game_running, events, screen,
          error, sent, trail>>

(***************************************************************************)
(* Bounds of the model.                                                    *)
(***************************************************************************)
\* the longest list of choices the server sends
MaxChoices == 3
\* the longest list one pygame.event.get() returns
MaxBatch == 2

(***************************************************************************)
(* Program constants.                                                      *)
(***************************************************************************)
GREEN == <<0, 255, 0>>
WHITE == <<255, 255, 255>>
API_BASE_URL == "http://127.0.0.1:5000/api"
GenericMessage == "Something is wrong reaching the Flask quizzer API."
BadRequestPrefix == "Bad request: "

(***************************************************************************)
(* MultipleChoiceQuestion.                                                 *)
(***************************************************************************)
\* the keyword parameters of MultipleChoiceQuestion.__init__
InitParams == {"question_id", "question_text", "answer_index", "choices"}

\* a constructor that stores the identifier as the text
MultipleChoiceQuestion_misassigned(kw) ==
    [question_id   |-> kw.question_id,
     question_text |-> kw.question_id,
     answer_index  |-> kw.answer_index,
     choices       |-> kw.choices]

\* the object __init__ builds: the four attributes, each set from its parameter
MultipleChoiceQuestion(kw) ==
    [question_id   |-> kw.question_id,
     question_text |-> kw.question_text,
     answer_index  |-> kw.answer_index,
     choices       |-> kw.choices]

\* `question` before line 110 has assigned it
NoQuestion ==
    [question_id |-> "", question_text |-> "", answer_index |-> 0, choices |-> <<>>]

(***************************************************************************)
(* The environment: what the quiz server can answer.                       *)
(***************************************************************************)
ChoiceText(i) == "choice" \o ToString(i)

\* the questions the server holds: one per length of choices (the code accepts
\* an empty list too), and the longest one a second time with another answer_index
Pool ==
    {[question_id   |-> "uuid-" \o ToString(n),
      question_text |-> "text-" \o ToString(n),
      answer_index  |-> a,
      choices       |-> [i \in 1..n |-> ChoiceText(i)]] :
        n \in 0..MaxChoices, a \in {0}}
    \cup
    {[question_id   |-> "uuid-" \o ToString(MaxChoices),
      question_text |-> "text-" \o ToString(MaxChoices),
      answer_index  |-> MaxChoices - 1,
      choices       |-> [i \in 1..MaxChoices |-> ChoiceText(i)]]}

Messages == {"no questions available", "unknown question"}

\* statuses the code does not tell apart: a success other than 200, a client
\* error other than 400, a server error
OtherStatuses == {201, 404, 500}

\* a body whose keys are the parameters of __init__
KeywordBody(q) == q

\* a body of the shape {id, question_text, answer_index, choices}
IdBody(q) ==
    [id            |-> q.question_id,
     question_text |-> q.question_text,
     answer_index  |-> q.answer_index,
     choices       |-> q.choices]

MessageBodies == {[message |-> m] : m \in Messages}

FetchBodies ==
    {KeywordBody(q) : q \in Pool}
    \cup {IdBody(q) : q \in {p \in Pool : Len(p.choices) = MaxChoices /\ p.answer_index = 0}}
    \cup MessageBodies

CheckBodies == {[is_correct |-> b] : b \in BOOLEAN} \cup MessageBodies

\* an error body that has no `message`
NoMessageBody == [error |-> "bad request"]

\* requests.get raised instead of returning a response (no connection, timeout)
ConnectionFailed == [status |-> 0, body |-> [exception |-> "ConnectionError"]]

\* what the server answers to an error, whatever the call
ErrorReplies ==
    [status : {400}, body : MessageBodies \cup {NoMessageBody}]
    \cup [status : OtherStatuses, body : MessageBodies]
    \cup {ConnectionFailed}

FetchReplies == [status : {200}, body : FetchBodies] \cup ErrorReplies
CheckReplies == [status : {200}, body : CheckBodies] \cup ErrorReplies

(***************************************************************************)
(* Outcomes of a call: a returned value or a raised exception.             *)
(***************************************************************************)
Return(v) == [kind |-> "return", value |-> v]
Raise(exc, msg) == [kind |-> "raise", exc |-> exc, msg |-> msg]
NoError == [exc |-> "", msg |-> ""]

(***************************************************************************)
(* fetch_random_question and check_answer.                                 *)
(***************************************************************************)
\* the URL of line 58
fetch_url == API_BASE_URL \o "/random-question"

\* a fetch whose last branch reports the body it received
fetch_random_question_leaking(reply) ==
    IF reply = ConnectionFailed THEN Raise("ConnectionError", "")
    ELSE IF reply.status = 200 THEN
        IF DOMAIN reply.body = InitParams
        THEN Return(MultipleChoiceQuestion(reply.body))
        ELSE Raise("TypeError", "")
    ELSE IF reply.status = 400 THEN
        IF "message" \in DOMAIN reply.body
        THEN Raise("GameException", BadRequestPrefix \o reply.body.message)
        ELSE Raise("KeyError", "message")
    ELSE IF "message" \in DOMAIN reply.body
        THEN Raise("GameException", reply.body.message)
        ELSE Raise("GameException", GenericMessage)

\* lines 59-65 applied to the reply of the request of line 58
fetch_random_question(reply) ==
    IF reply = ConnectionFailed THEN Raise("ConnectionError", "")
    ELSE IF reply.status = 200 THEN
        IF DOMAIN reply.body = InitParams
        THEN Return(MultipleChoiceQuestion(reply.body))
        ELSE Raise("TypeError", "")
    ELSE IF reply.status = 400 THEN
        IF "message" \in DOMAIN reply.body
        THEN Raise("GameException", BadRequestPrefix \o reply.body.message)
        ELSE Raise("KeyError", "message")
    ELSE Raise("GameException", GenericMessage)

\* a URL that numbers the choices from 1, as the screen does
check_url_one_based(q, selected) ==
    API_BASE_URL \o "/question/" \o q.question_id \o "/answer/" \o ToString(selected + 1)

\* the URL of line 71
check_url(q, selected) ==
    API_BASE_URL \o "/question/" \o q.question_id \o "/answer/" \o ToString(selected)

\* a check that treats every 4xx status as it treats 400
check_answer_any_4xx(reply) ==
    IF reply = ConnectionFailed THEN Raise("ConnectionError", "")
    ELSE IF reply.status = 200 THEN
        IF "is_correct" \in DOMAIN reply.body
        THEN Return(reply.body.is_correct)
        ELSE Raise("KeyError", "is_correct")
    ELSE IF reply.status \in 400..499 THEN
        IF "message" \in DOMAIN reply.body
        THEN Raise("GameException", BadRequestPrefix \o reply.body.message)
        ELSE Raise("KeyError", "message")
    ELSE Raise("GameException", GenericMessage)

\* lines 72-78 applied to the reply of the request of lines 70-71
check_answer(reply) ==
    IF reply = ConnectionFailed THEN Raise("ConnectionError", "")
    ELSE IF reply.status = 200 THEN
        IF "is_correct" \in DOMAIN reply.body
        THEN Return(reply.body.is_correct)
        ELSE Raise("KeyError", "is_correct")
    ELSE IF reply.status = 400 THEN
        IF "message" \in DOMAIN reply.body
        THEN Raise("GameException", BadRequestPrefix \o reply.body.message)
        ELSE Raise("KeyError", "message")
    ELSE Raise("GameException", GenericMessage)

(***************************************************************************)
(* Drawing.                                                                *)
(***************************************************************************)
NoScreen == [kind |-> "blank"]

\* a redraw that highlights the line whose printed number is the selection
draw_question_one_based(q, selected, sc) ==
    [kind    |-> "question",
     title   |-> q.question_text,
     options |-> [i \in 1..Len(q.choices) |->
                    [text  |-> ToString(i) \o ". " \o q.choices[i],
                     color |-> IF i = selected THEN GREEN ELSE WHITE]],
     score   |-> "Score: " \o ToString(sc)]

\* draw_question: the question text, one line per choice, the score
draw_question(q, selected, sc) ==
    [kind    |-> "question",
     title   |-> q.question_text,
     options |-> [i \in 1..Len(q.choices) |->
                    [text  |-> ToString(i) \o ". " \o q.choices[i],
                     color |-> IF i - 1 = selected THEN GREEN ELSE WHITE]],
     score   |-> "Score: " \o ToString(sc)]

\* the end screen of lines 135-140
end_screen(sc) ==
    [kind  |-> "game over",
     title |-> "Game Over!",
     score |-> "Your Score: " \o ToString(sc)]

(***************************************************************************)
(* pygame events.                                                          *)
(***************************************************************************)
Event(type, key) == [type |-> type, key |-> key]
QUIT     == Event("QUIT", "")
K_q      == Event("KEYDOWN", "K_q")
K_DOWN   == Event("KEYDOWN", "K_DOWN")
K_UP     == Event("KEYDOWN", "K_UP")
K_RETURN == Event("KEYDOWN", "K_RETURN")
K_a      == Event("KEYDOWN", "K_a")
MOUSEMOTION == Event("MOUSEMOTION", "")

Events == {QUIT, K_q, K_DOWN, K_UP, K_RETURN, K_a, MOUSEMOTION}

\* the lists of at most k events
Batches(k) == UNION {[1..n -> Events] : n \in 0..k}

\* a remainder that truncates toward zero, as C's % does
PyMod_truncating(a, n) == IF a < 0 THEN 0 - ((0 - a) % n) ELSE a % n

\* Python's % for a positive right operand: the result is never negative
PyMod(a, n) == ((a % n) + n) % n

(***************************************************************************)
(* main().                                                                 *)
(***************************************************************************)
Init ==
    /\ pc = "start"
    /\ question = NoQuestion
    /\ selected_option = 0
    /\ score = 0
    /\ game_running = TRUE
    /\ events = <<>>
    /\ screen = NoScreen
    /\ error = NoError
    /\ sent = <<>>
    /\ trail = <<>>

Request(url, reply) == [url |-> url, reply |-> reply]

\* an exception that is caught and recorded, the program going on
Crash_caught(r) ==
    /\ pc' = pc
    /\ error' = [exc |-> r.exc, msg |-> r.msg]

\* an exception nobody catches ends the process
Crash(r) ==
    /\ pc' = "crashed"
    /\ error' = [exc |-> r.exc, msg |-> r.msg]

\* a first fetch that is tried a second time when it fails
Start_retrying ==
    /\ pc = "start"
    /\ \E reply \in FetchReplies, again \in FetchReplies :
         LET first == fetch_random_question(reply)
             r     == IF first.kind = "return" THEN first
                      ELSE fetch_random_question(again)
         IN
         /\ sent' = IF first.kind = "return"
                    THEN <<Request(fetch_url, reply)>>
                    ELSE <<Request(fetch_url, reply), Request(fetch_url, again)>>
         /\ IF r.kind = "return"
            THEN /\ question' = r.value
                 /\ pc' = "poll"
                 /\ error' = error
            ELSE /\ Crash(r)
                 /\ question' = question
    /\ UNCHANGED <<selected_option, score, game_running, events, screen, trail>>

\* line 110: the first question
Start ==
    /\ pc = "start"
    /\ \E reply \in FetchReplies :
         LET r == fetch_random_question(reply) IN
         /\ sent' = <<Request(fetch_url, reply)>>
         /\ IF r.kind = "return"
            THEN /\ question' = r.value
                 /\ pc' = "poll"
                 /\ error' = error
            ELSE /\ Crash(r)
                 /\ question' = question
    /\ UNCHANGED <<selected_option, score, game_running, events, screen, trail>>

\* lines 114-115: the loop condition held; pygame.event.get() returns a list
GetEvents ==
    /\ pc = "poll"
    /\ \E batch \in Batches(MaxBatch) :
         events' = batch
    /\ pc' = "events"
    /\ sent' = <<>>
    /\ UNCHANGED <<question, selected_option, score, game_running, screen,
                   error, trail>>

\* trail keeps the latest MaxTrail entries
MaxTrail == MaxChoices
Keep(t) == IF Len(t) > MaxTrail THEN Tail(t) ELSE t

\* the for-loop of line 115 takes the next event of the list
Handling(e) ==
    /\ pc = "events"
    /\ events # <<>>
    /\ Head(events) = e
    /\ events' = Tail(events)
    /\ trail' = IF e \in {K_DOWN, K_UP}
                THEN Keep(Append(trail, [event |-> e, selected_option |-> selected_option]))
                ELSE <<>>

\* lines 116-117
HandleQuit ==
    /\ Handling(QUIT)
    /\ game_running' = FALSE
    /\ sent' = <<>>
    /\ UNCHANGED <<pc, question, selected_option, score, screen, error>>

\* lines 119-120
HandleKeyQ ==
    /\ Handling(K_q)
    /\ game_running' = FALSE
    /\ sent' = <<>>
    /\ UNCHANGED <<pc, question, selected_option, score, screen, error>>

\* the right operand of % being 0 raises ZeroDivisionError
Wrap(a, n) ==
    IF n = 0 THEN Raise("ZeroDivisionError", "") ELSE Return(PyMod(a, n))

\* a Down that stops at the last choice instead of wrapping
move_down_clamped(selected, q) ==
    IF Len(q.choices) = 0 THEN Raise("ZeroDivisionError", "")
    ELSE Return(IF selected + 1 >= Len(q.choices) THEN selected ELSE selected + 1)

\* the right-hand side of lines 122-123
move_down(selected, q) == Wrap(selected + 1, Len(q.choices))

\* an Up that subtracts without wrapping
move_up_unwrapped(selected, q) ==
    IF Len(q.choices) = 0 THEN Raise("ZeroDivisionError", "")
    ELSE Return(selected - 1)

\* the right-hand side of lines 125-126
move_up(selected, q) == Wrap(selected - 1, Len(q.choices))

\* lines 121-123
HandleDown ==
    /\ Handling(K_DOWN)
    /\ LET r == move_down(selected_option, question) IN
       IF r.kind = "return"
       THEN selected_option' = r.value /\ UNCHANGED <<pc, error>>
       ELSE Crash(r) /\ UNCHANGED selected_option
    /\ sent' = <<>>
    /\ UNCHANGED <<question, score, game_running, screen>>

\* lines 124-126
HandleUp ==
    /\ Handling(K_UP)
    /\ LET r == move_up(selected_option, question) IN
       IF r.kind = "return"
       THEN selected_option' = r.value /\ UNCHANGED <<pc, error>>
       ELSE Crash(r) /\ UNCHANGED selected_option
    /\ sent' = <<>>
    /\ UNCHANGED <<question, score, game_running, screen>>

\* an `if` that takes its branch whatever the value
truthy_always(v) == TRUE

\* an `if` that takes its branch on the opposite value
truthy_negated(v) == v = FALSE

\* a client that compares the selection with its own answer_index
truthy_local(v) == question.answer_index = selected_option

\* the test of the `if` of line 128 on the value check_answer returned
truthy(v) == v = TRUE

\* a score that counts the correct answers
score_after_correct_counting(sc) == sc + 1

\* the score after a correct answer: lines 128-130 do not assign it
score_after_correct(sc) == sc

\* a correct answer that leaves the selection where it was
reset_selection_kept == selected_option

\* line 130: the selection once the next question is fetched
reset_selection == 0

\* lines 127-130
HandleReturn ==
    /\ Handling(K_RETURN)
    /\ \E creply \in CheckReplies :
         LET c    == check_answer(creply)
             creq == Request(check_url(question, selected_option), creply)
         IN
         \/ /\ c.kind = "raise"
            /\ Crash(c)
            /\ sent' = <<creq>>
            /\ UNCHANGED <<question, selected_option, score>>
         \/ /\ c.kind = "return"
            /\ ~truthy(c.value)
            /\ sent' = <<creq>>
            /\ UNCHANGED <<pc, error, question, selected_option, score>>
         \/ /\ c.kind = "return"
            /\ truthy(c.value)
            /\ \E freply \in FetchReplies :
                 LET f == fetch_random_question(freply) IN
                 /\ sent' = <<creq, Request(fetch_url, freply)>>
                 /\ IF f.kind = "return"
                    THEN /\ question' = f.value
                         /\ selected_option' = reset_selection
                         /\ score' = score_after_correct(score)
                         /\ UNCHANGED <<pc, error>>
                    ELSE /\ Crash(f)
                         /\ UNCHANGED <<question, selected_option, score>>
    /\ UNCHANGED <<game_running, screen>>

\* a key none of the branches of lines 119-127 names, or an event of another type
HandleOther ==
    /\ \E e \in Events \ {QUIT, K_q, K_DOWN, K_UP, K_RETURN} : Handling(e)
    /\ sent' = <<>>
    /\ UNCHANGED <<pc, question, selected_option, score, game_running, screen,
                   error>>

\* a loop that never ends
loop_condition_forever(running) == "poll"

\* a loop that ends after its first iteration
loop_condition_once(running) == "end"

\* the `while game_running` of line 114: another iteration, or the end screen
loop_condition(running) == IF running THEN "poll" ELSE "end"

\* line 132, then the loop condition of line 114
Draw ==
    /\ pc = "events"
    /\ events = <<>>
    /\ screen' = draw_question(question, selected_option, score)
    /\ pc' = loop_condition(game_running)
    /\ sent' = <<>>
    /\ UNCHANGED <<question, selected_option, score, game_running, events,
                   error, trail>>

\* lines 135-145
EndScreen ==
    /\ pc = "end"
    /\ screen' = end_screen(score)
    /\ pc' = "exited"
    /\ sent' = <<>>
    /\ UNCHANGED <<question, selected_option, score, game_running, events,
                   error, trail>>

Next ==
    \/ Start
    \/ GetEvents
    \/ HandleQuit
    \/ HandleKeyQ
    \/ HandleDown
    \/ HandleUp
    \/ HandleReturn
    \/ HandleOther
    \/ Draw
    \/ EndScreen

Spec == Init /\ [][Next]_vars

\* the one thread of the program always takes its next step: every request
\* returns or times out, and pygame.time.wait returns
FairSpec == Spec /\ WF_vars(Next)

(***************************************************************************)
(* Vocabulary of the properties.                                           *)
(***************************************************************************)
\* the step handles the event e: the for-loop takes it from the list
Handles(e) == pc = "events" /\ events # <<>> /\ Head(events) = e

\* the step handles some event
HandlesEvent == pc = "events" /\ events # <<>>

IsFetch(r) == r.url = API_BASE_URL \o "/random-question"
IsCheck(r) == ~IsFetch(r)

\* the requests of a list that are fetches
FetchesIn(s) == {i \in 1..Len(s) : IsFetch(s[i])}

\* the reply is a response saying is_correct = b
Answers(reply, b) ==
    /\ reply.status = 200
    /\ DOMAIN reply.body = {"is_correct"}
    /\ reply.body.is_correct = b

\* the step is a Confirm whose check_answer returned b
ConfirmAnswered(b) ==
    /\ Handles(K_RETURN)
    /\ sent' # <<>>
    /\ IsCheck(sent'[1])
    /\ Answers(sent'[1].reply, b)

Last(s) == s[Len(s)]

(***************************************************************************)
(* C1. After the first fetch, a step replaces the question or issues a     *)
(* fetch only if it handles a Confirm whose check_answer returned true;    *)
(* when the fetch of such a step succeeds, selected_option is 0 after it   *)
(* and the question is the one fetched.                                    *)
(***************************************************************************)
C1_SoleTrigger ==
    [][ /\ (pc # "start" /\ (question' # question \/ FetchesIn(sent') # {}))
            => ConfirmAnswered(TRUE)
        /\ (pc # "start" /\ FetchesIn(sent') # {} /\ pc' # "crashed")
            => /\ selected_option' = 0
               /\ Len(sent') = 2
               /\ question' = [f \in InitParams |-> sent'[2].reply.body[f]]
      ]_vars

\* a correct answer given at index 2 has replaced the question by another one
C1_Witness ==
    /\ pc = "events"
    /\ Len(sent) = 2
    /\ Answers(sent[1].reply, TRUE)
    /\ sent[1].url = API_BASE_URL \o "/question/uuid-3/answer/2"
    /\ question.question_id = "uuid-2"
    /\ selected_option = 0

(***************************************************************************)
(* C2. A step that handles a Confirm whose check_answer returned false     *)
(* leaves selected_option, the question and the score as they were and     *)
(* issues no fetch.                                                        *)
(***************************************************************************)
C2_FalseChangesNothing ==
    [][ ConfirmAnswered(FALSE)
            => /\ selected_option' = selected_option
               /\ question' = question
               /\ score' = score
               /\ FetchesIn(sent') = {}
               /\ Len(sent') = 1
      ]_vars

\* a wrong answer given at index 1: the selection is still 1
C2_Witness ==
    /\ pc = "events"
    /\ Len(sent) = 1
    /\ Answers(sent[1].reply, FALSE)
    /\ sent[1].url = API_BASE_URL \o "/question/uuid-3/answer/1"
    /\ question.question_id = "uuid-3"
    /\ selected_option = 1

(***************************************************************************)
(* The call that ended the process.  A step resets `sent`, and a crashed   *)
(* process takes no step, so in a crashed state with requests in `sent`    *)
(* the last of them is the call that raised.                               *)
(***************************************************************************)
CallFailed == pc = "crashed" /\ sent # <<>>

\* the reply is a response (requests.get returned) with a status in lo..hi
StatusIn(reply, lo, hi) == reply # ConnectionFailed /\ reply.status \in lo..hi

HasMessage(reply) == "message" \in DOMAIN reply.body

(***************************************************************************)
(* C3, as stated.  Every 4xx response makes the call fail with the body's  *)
(* `message`, unmodified, as the error's message.                          *)
(***************************************************************************)
C3_Original ==
    \A i \in 1..Len(sent) :
        (StatusIn(sent[i].reply, 400, 499) /\ HasMessage(sent[i].reply))
            => /\ CallFailed
               /\ i = Len(sent)
               /\ error = [exc |-> "GameException", msg |-> sent[i].reply.body.message]

(***************************************************************************)
(* C3, amended.  A response with status 400 makes either call fail with a  *)
(* GameException whose message is "Bad request: " followed by the body's   *)
(* `message`, unmodified; a response with any other 4xx status makes it    *)
(* fail with the generic message.                                          *)
(***************************************************************************)
C3_BadRequestMessage ==
    \A i \in 1..Len(sent) :
        /\ (StatusIn(sent[i].reply, 400, 400) /\ HasMessage(sent[i].reply))
            => /\ CallFailed
               /\ i = Len(sent)
               /\ error = [exc |-> "GameException",
                           msg |-> "Bad request: " \o sent[i].reply.body.message]
        /\ StatusIn(sent[i].reply, 401, 499)
            => /\ CallFailed
               /\ i = Len(sent)
               /\ error = [exc |-> "GameException",
                           msg |-> "Something is wrong reaching the Flask quizzer API."]

\* check_answer has failed on a 400 that says "unknown question"
C3_Witness ==
    /\ CallFailed
    /\ IsCheck(Last(sent))
    /\ Last(sent).reply = [status |-> 400, body |-> [message |-> "unknown question"]]
    /\ error.msg = "Bad request: unknown question"

(***************************************************************************)
(* C4. A response whose status is neither 2xx nor 4xx makes either call    *)
(* fail with the generic message, which is not taken from the body; the    *)
(* call returns nothing: the question and selected_option stay as they     *)
(* were.                                                                   *)
(***************************************************************************)
OtherStatus(reply) ==
    /\ reply # ConnectionFailed
    /\ ~StatusIn(reply, 200, 299)
    /\ ~StatusIn(reply, 400, 499)

\* every string the body holds
BodyStrings(body) ==
    {body[f] : f \in {g \in DOMAIN body : g \in {"message", "question_id", "question_text"}}}

C4_GenericMessage ==
    [][ \A i \in 1..Len(sent') :
          OtherStatus(sent'[i].reply)
            => /\ pc' = "crashed"
               /\ i = Len(sent')
               /\ error' = [exc |-> "GameException",
                            msg |-> "Something is wrong reaching the Flask quizzer API."]
               /\ error'.msg \notin BodyStrings(sent'[i].reply.body)
               /\ question' = question
               /\ selected_option' = selected_option
      ]_vars

\* the fetch after a correct answer has failed on a 500 that carries a message
C4_Witness ==
    /\ CallFailed
    /\ Len(sent) = 2
    /\ IsFetch(Last(sent))
    /\ Last(sent).reply = [status |-> 500, body |-> [message |-> "no questions available"]]
    /\ error.msg = "Something is wrong reaching the Flask quizzer API."

(***************************************************************************)
(* Runs of Down and Up events.  trail[i] holds the i-th of the latest      *)
(* Down/Up events handled in a row under the current question, with        *)
(* selected_option as it was before the event.                             *)
(***************************************************************************)
\* selected_option after the i-th event of the trail
After(i) == IF i < Len(trail) THEN trail[i + 1].selected_option ELSE selected_option

\* the events i..j of the trail are all e
AllAre(i, j, e) == \A k \in i..j : trail[k].event = e

NChoices == Len(question.choices)

(***************************************************************************)
(* C5. With N >= 1 choices, N Down events handled in a row leave           *)
(* selected_option at the value it had before the first, and so do N Up    *)
(* events.                                                                 *)
(***************************************************************************)
C5_FullCycle ==
    NChoices >= 1 =>
        \A i \in 1..(Len(trail) - NChoices + 1) :
            \A e \in {K_DOWN, K_UP} :
                AllAre(i, i + NChoices - 1, e)
                    => After(i + NChoices - 1) = trail[i].selected_option

\* three Downs on a three-choice question, from index 1 round to index 1
C5_Witness ==
    /\ NChoices = 3
    /\ Len(trail) = 3
    /\ AllAre(1, 3, K_DOWN)
    /\ trail[1].selected_option = 1
    /\ trail[3].selected_option = 0
    /\ selected_option = 1

(***************************************************************************)
(* C6. With N >= 1 choices, a Down handled right after an Up, or an Up     *)
(* right after a Down, leaves selected_option at the value it had before   *)
(* the pair, at the indices 0 and N-1 too.                                 *)
(***************************************************************************)
C6_Inverse ==
    NChoices >= 1 =>
        \A i \in 1..(Len(trail) - 1) :
            trail[i].event # trail[i + 1].event
                => After(i + 1) = trail[i].selected_option

\* Down at the last index wraps to 0, and the Up after it wraps back
C6_Witness ==
    /\ NChoices = 3
    /\ Len(trail) = 2
    /\ trail[1] = [event |-> K_DOWN, selected_option |-> 2]
    /\ trail[2] = [event |-> K_UP, selected_option |-> 0]
    /\ selected_option = 2

(***************************************************************************)
(* C7. Every check-answer request is issued by a step that handles a       *)
(* Confirm, and names the question that is current and the value           *)
(* selected_option has when that step begins; after Down, Down, Up on a    *)
(* three-choice question with index 0 selected, it names index 1.          *)
(***************************************************************************)
C7_CheckCarriesCurrent ==
    [][ /\ \A i \in 1..Len(sent') :
              IsCheck(sent'[i])
                => /\ Handles(K_RETURN)
                   /\ i = 1
                   /\ sent'[i].url = API_BASE_URL \o "/question/" \o question.question_id
                                        \o "/answer/" \o ToString(selected_option)
        /\ (/\ Handles(K_RETURN)
            /\ NChoices = 3
            /\ trail = <<[event |-> K_DOWN, selected_option |-> 0],
                         [event |-> K_DOWN, selected_option |-> 1],
                         [event |-> K_UP,   selected_option |-> 2]>>)
                => /\ sent' # <<>>
                   /\ sent'[1].url = API_BASE_URL \o "/question/uuid-3/answer/1"
      ]_vars

\* a Confirm handled right after a correct answer, before the next redraw: the
\* screen still shows the three-choice question at index 2, and the check names
\* the question fetched by the answer before it, at index 0
C7_Witness ==
    /\ pc = "events"
    /\ sent # <<>>
    /\ sent[1].url = API_BASE_URL \o "/question/uuid-2/answer/0"
    /\ Answers(sent[1].reply, FALSE)
    /\ question.question_id = "uuid-2"
    /\ screen.kind = "question"
    /\ screen.title = "text-3"
    /\ screen.options[3].color = GREEN

(***************************************************************************)
(* C8, as stated.  A 200 response whose body has exactly the fields id,    *)
(* question_text, answer_index and choices makes the fetch return the      *)
(* question with these four values.                                        *)
(***************************************************************************)
C8_Original ==
    (/\ sent # <<>>
     /\ IsFetch(Last(sent))
     /\ StatusIn(Last(sent).reply, 200, 200)
     /\ DOMAIN Last(sent).reply.body = {"id", "question_text", "answer_index", "choices"})
        => /\ pc # "crashed"
           /\ question.question_id = Last(sent).reply.body.id
           /\ question.question_text = Last(sent).reply.body.question_text
           /\ question.answer_index = Last(sent).reply.body.answer_index
           /\ question.choices = Last(sent).reply.body.choices

(***************************************************************************)
(* C8, amended.  A 200 response whose body has exactly the fields          *)
(* question_id, question_text, answer_index and choices makes the fetch    *)
(* return the question with these four values, and it does not fail; with  *)
(* the identifier under the name id the fetch fails with a TypeError.      *)
(***************************************************************************)
C8_FetchBuildsQuestion ==
    (/\ sent # <<>>
     /\ IsFetch(Last(sent))
     /\ StatusIn(Last(sent).reply, 200, 200))
        => LET body == Last(sent).reply.body IN
           /\ DOMAIN body = {"question_id", "question_text", "answer_index", "choices"}
                => /\ pc # "crashed"
                   /\ error = NoError
                   /\ question.question_id = body.question_id
                   /\ question.question_text = body.question_text
                   /\ question.answer_index = body.answer_index
                   /\ question.choices = body.choices
           /\ DOMAIN body = {"id", "question_text", "answer_index", "choices"}
                => /\ pc = "crashed"
                   /\ error.exc = "TypeError"

\* the first fetch has returned the three-choice question whose answer is index 2
C8_Witness ==
    /\ pc = "poll"
    /\ Len(sent) = 1
    /\ IsFetch(sent[1])
    /\ sent[1].reply.status = 200
    /\ question = [question_id   |-> "uuid-3",
                   question_text |-> "text-3",
                   answer_index  |-> 2,
                   choices       |-> <<"choice1", "choice2", "choice3">>]

(***************************************************************************)
(* C9, as stated.  Once a quit command has been received the program goes  *)
(* on to GameOver whatever else is delivered: no run ends by an unhandled  *)
(* error after a quit command was handled.                                 *)
(***************************************************************************)
C9_Original == pc = "crashed" => game_running

(***************************************************************************)
(* C9, amended.  Once a quit command has been handled, no further list of  *)
(* events is requested, and the program eventually either shows the end    *)
(* screen with the final score and exits, or is ended by an unhandled      *)
(* exception raised while it handles a later event of the same list.       *)
(***************************************************************************)
C9_QuitLeadsToEnd ==
    /\ [](~game_running => pc # "poll")
    /\ [][(~game_running /\ pc' = "crashed") => HandlesEvent]_vars
    /\ [](pc = "exited" =>
            screen = [kind  |-> "game over",
                      title |-> "Game Over!",
                      score |-> "Your Score: " \o ToString(score)])
    /\ (~game_running) ~> (pc = "exited" \/ pc = "crashed")

\* the process has exited through the end screen after a quit command
C9_Witness ==
    /\ pc = "exited"
    /\ ~game_running
    /\ screen.kind = "game over"

(***************************************************************************)
(* C10. game_running becomes false only in a step that handles the quit    *)
(* key or the window-close event, and never becomes true again; the loop   *)
(* is left through its condition only when game_running is false, and      *)
(* what follows is the end screen.                                         *)
(***************************************************************************)
InLoop == pc \in {"poll", "events"}

CallFails(r) ==
    IF IsFetch(r)
    THEN ~(r.reply.status = 200 /\ DOMAIN r.reply.body =
             {"question_id", "question_text", "answer_index", "choices"})
    ELSE ~(r.reply.status = 200 /\ "is_correct" \in DOMAIN r.reply.body)

C11_FailureTerminates ==
    /\ [][ \A i \in 1..Len(sent') :
             CallFails(sent'[i])
               => /\ pc' = "crashed"
                  /\ error' # NoError
                  /\ i = Len(sent')
                  /\ question' = question
                  /\ selected_option' = selected_option
                  /\ screen' = screen
       ]_vars
    /\ [][pc # "crashed"]_vars
    /\ [](pc = "crashed" => screen.kind # "game over")

\* check_answer has failed while another event of the list was still to be
\* handled: the event stays unhandled
C11_Witness ==
    /\ pc = "crashed"
    /\ Len(sent) = 1
    /\ IsCheck(sent[1])
    /\ CallFails(sent[1])
    /\ error.exc = "GameException"
    /\ events = <<K_DOWN>>
    /\ screen.kind = "question"

(***************************************************************************)
(* C12. With N >= 1 the number of choices of the question that is current  *)
(* when the event is handled, a Down sets selected_option to               *)
(* (selected_option + 1) mod N and an Up sets it to (selected_option - 1)  *)
(* mod N, never negative: index 0 goes to N - 1.                           *)
(***************************************************************************)
C12_DownUpModulo ==
    [][ /\ (Handles(K_DOWN) /\ NChoices >= 1)
            => /\ selected_option' =
                    (IF selected_option + 1 = NChoices THEN 0 ELSE selected_option + 1)
               /\ selected_option' \in 0..(NChoices - 1)
               /\ pc' = "events"
        /\ (Handles(K_UP) /\ NChoices >= 1)
            => /\ selected_option' =
                    (IF selected_option = 0 THEN NChoices - 1 ELSE selected_option - 1)
               /\ selected_option' \in 0..(NChoices - 1)
               /\ pc' = "events"
      ]_vars

\* an Up at index 0 handled right after a correct answer replaced a three-choice
\* question (still on the screen) by a two-choice one: it wraps to index 1
C12_Witness ==
    /\ NChoices = 2
    /\ trail = <<[event |-> K_UP, selected_option |-> 0]>>
    /\ selected_option = 1
    /\ screen.kind = "question"
    /\ Len(screen.options) = 3

(***************************************************************************)
(* C13. The first step issues exactly one fetch, and the program never     *)
(* returns to it; a step that handles a Confirm issues exactly one check,  *)
(* followed by exactly one fetch if the check answered true and by         *)
(* nothing otherwise; every other step (Up, Down, the quit key, the        *)
(* window-close event, any other event, a redraw) issues no request.  No   *)
(* request is issued twice: not after a failure, not after a negative      *)
(* answer.                                                                 *)
(***************************************************************************)
C13_OneAttemptPerCall ==
    /\ [][ /\ pc = "start"
             => (Len(sent') = 1 /\ IsFetch(sent'[1]))
           /\ Handles(K_RETURN)
             => /\ Len(sent') \in {1, 2}
                /\ IsCheck(sent'[1])
                /\ Len(sent') = 2 <=> Answers(sent'[1].reply, TRUE)
                /\ Len(sent') = 2 => IsFetch(sent'[2])
           /\ (pc # "start" /\ ~Handles(K_RETURN))
             => sent' = <<>>
       ]_vars
    /\ [][pc' # "start"]_vars
    /\ [](pc = "start" => sent = <<>>)

\* the fetch after a correct answer has failed on a 400: it was issued once,
\* and the process has ended
C13_Witness ==
    /\ pc = "crashed"
    /\ Len(sent) = 2
    /\ IsCheck(sent[1])
    /\ Answers(sent[1].reply, TRUE)
    /\ IsFetch(sent[2])
    /\ sent[2].reply.status = 400

(***************************************************************************)
(* C14. The score is 0 in every reachable state, after correct answers     *)
(* and on the end screen too, and 0 is what every screen shows.            *)
(***************************************************************************)
C14_ScoreStaysZero ==
    /\ score = 0
    /\ screen.kind = "question" => screen.score = "Score: 0"
    /\ screen.kind = "game over" => screen.score = "Your Score: 0"

\* a Confirm has just been answered true and the next question fetched, after
\* an earlier redraw: the score is 0 and the screen shows "Score: 0"
C14_Witness ==
    /\ pc = "events"
    /\ Len(sent) = 2
    /\ Answers(sent[1].reply, TRUE)
    /\ question.question_id = "uuid-1"
    /\ score = 0
    /\ screen.kind = "question"
    /\ screen.score = "Score: 0"

(***************************************************************************)
(* A question without its answer_index, and the same question with         *)
(* another answer_index: what two runs of C15 share and how they differ.   *)
(***************************************************************************)
Public(q) ==
    [question_id   |-> q.question_id,
     question_text |-> q.question_text,
     choices       |-> q.choices]

Twin(q, a) == [q EXCEPT !.answer_index = a]

(***************************************************************************)
(* C15. The answer_index of the client's question has no effect.  A step   *)
(* that handles a Confirm sends the check for the question's id and the    *)
(* selected index; what follows is decided by the reply alone: on          *)
(* is_correct = true one fetch is sent, and the fetched question replaces  *)
(* the current one with the selection at 0 (or the failed fetch ends the   *)
(* process); on any other reply nothing is fetched and the selection and   *)
(* the question stay, whether or not the selection equals answer_index.    *)
(* Down and Up send nothing and keep the question.  The request and the    *)
(* moves computed for a question are those computed for the same question  *)
(* with any other answer_index.  Each step being a function of the events, *)
(* the replies and the state without answer_index, two runs that differ    *)
(* only in answer_index go through the same selections, replacements and   *)
(* requests.                                                               *)
(***************************************************************************)
C15_AnswerIndexUnused ==
    [][ /\ Handles(K_RETURN)
            => /\ sent' # <<>>
               /\ sent'[1].url = API_BASE_URL \o "/question/" \o question.question_id
                                     \o "/answer/" \o ToString(selected_option)
               /\ IF Answers(sent'[1].reply, TRUE)
                  THEN /\ Len(sent') = 2
                       /\ sent'[2].url = API_BASE_URL \o "/random-question"
                       /\ IF /\ sent'[2].reply.status = 200
                             /\ DOMAIN sent'[2].reply.body = InitParams
                          THEN /\ pc' = "events"
                               /\ selected_option' = 0
                               /\ Public(question') = Public(sent'[2].reply.body)
                          ELSE /\ pc' = "crashed"
                               /\ selected_option' = selected_option
                               /\ question' = question
                  ELSE /\ Len(sent') = 1
                       /\ selected_option' = selected_option
                       /\ question' = question
                       /\ pc' = IF Answers(sent'[1].reply, FALSE) THEN "events" ELSE "crashed"
        /\ (Handles(K_DOWN) \/ Handles(K_UP))
            => /\ sent' = <<>>
               /\ question' = question
        /\ HandlesEvent
            => \A a \in 0..MaxChoices :
                 /\ check_url(Twin(question, a), selected_option)
                        = check_url(question, selected_option)
                 /\ NChoices >= 1
                      => /\ move_down(selected_option, Twin(question, a))
                             = move_down(selected_option, question)
                         /\ move_up(selected_option, Twin(question, a))
                             = move_up(selected_option, question)
      ]_vars

\* the selection is the question's own answer_index, 2, and the server has
\* answered is_correct = false: nothing was fetched, the selection is still 2
C15_Witness ==
    /\ pc = "events"
    /\ Len(sent) = 1
    /\ Answers(sent[1].reply, FALSE)
    /\ sent[1].url = API_BASE_URL \o "/question/uuid-3/answer/2"
    /\ question.question_id = "uuid-3"
    /\ question.answer_index = 2
    /\ selected_option = 2

(***************************************************************************)
(* The step that ends an iteration of the game loop: the list of events    *)
(* is used up and line 132 runs.                                           *)
(***************************************************************************)
EndsIteration == pc = "events" /\ events = <<>>

(***************************************************************************)
(* C16. An iteration of the loop ends with one redraw of the whole         *)
(* screen.  The step that ends it, and no other step of the loop, writes   *)
(* the screen: the question's text, one numbered line per choice with the  *)
(* selected one in green and the others in white, and the score, all as    *)
(* they are once the events of the iteration are handled; the loop is left *)
(* for the next list of events or for the end screen by that step only.    *)
(* This holds with no event, with events that change nothing, and when the *)
(* quit command came in the iteration.                                     *)
(***************************************************************************)
C16_OneRedrawPerIteration ==
    [][ /\ EndsIteration
            => /\ screen'.kind = "question"
               /\ screen'.title = question'.question_text
               /\ Len(screen'.options) = Len(question'.choices)
               /\ \A i \in 1..Len(question'.choices) :
                    /\ screen'.options[i].text
                         = ToString(i) \o ". " \o question'.choices[i]
                    /\ screen'.options[i].color
                         = IF i = selected_option' + 1 THEN GREEN ELSE WHITE
               /\ screen'.score = "Score: " \o ToString(score')
               /\ pc' = IF game_running THEN "poll" ELSE "end"
               /\ question' = question
               /\ selected_option' = selected_option
               /\ score' = score
        /\ (InLoop /\ ~EndsIteration)
            => /\ screen' = screen
               /\ pc' \in {"events", "crashed"}
      ]_vars

\* the iteration that received Down and then the quit command has ended: the
\* screen shows the question with the second line, the one selected, in green
C16_Witness ==
    /\ pc = "end"
    /\ ~game_running
    /\ selected_option = 1
    /\ trail = <<>>
    /\ screen.kind = "question"
    /\ screen.title = question.question_text
    /\ Len(screen.options) = 3
    /\ screen.options[1].color = WHITE
    /\ screen.options[2].color = GREEN
    /\ screen.score = "Score: 0"

(***************************************************************************)
(* C17. With a question that has at least one choice, selected_option is   *)
(* an index of its choices, 0 <= selected_option < len(choices), in every  *)
(* state from the first fetch on: in the loop, on a failure and at the     *)
(* end, and right after a correct answer has replaced the question by one  *)
(* with fewer choices.                                                     *)
(***************************************************************************)
C17_SelectionIsAnIndex ==
    NChoices >= 1 => selected_option \in 0..(NChoices - 1)

\* a correct answer given at index 2 of three choices has replaced the
\* question by the one with a single choice: the selection is 0
C17_Witness ==
    /\ pc = "events"
    /\ Len(sent) = 2
    /\ sent[1].url = API_BASE_URL \o "/question/uuid-3/answer/2"
    /\ Answers(sent[1].reply, TRUE)
    /\ question.question_id = "uuid-1"
    /\ NChoices = 1
    /\ selected_option = 0

(***************************************************************************)
(* C18, as stated.  Once a quit command has been handled, no step changes  *)
(* selected_option or the question or issues a request.                    *)
(***************************************************************************)
C18_Original ==
    [][ ~game_running
            => /\ selected_option' = selected_option
               /\ question' = question
               /\ sent' = <<>>
      ]_vars

(***************************************************************************)
(* C18, amended.  Once a quit command has been handled, no new event is    *)
(* delivered: the list of events only gets shorter.  A step that then      *)
(* changes selected_option or the question, or issues a request, handles   *)
(* an event that came after the quit command in the same list.  Once that  *)
(* list is used up and the screen redrawn, selected_option and the         *)
(* question stay as they are and no request is issued.                     *)
(***************************************************************************)
C18_OnlyTheSameList ==
    /\ [][ ~game_running => Len(events') <= Len(events) ]_vars
    /\ [][ (~game_running /\ (selected_option' # selected_option
                              \/ question' # question
                              \/ sent' # <<>>))
              => HandlesEvent ]_vars
    /\ [][ (pc = "end" \/ pc = "exited")
              => /\ selected_option' = selected_option
                 /\ question' = question
                 /\ sent' = <<>>
                 /\ events' = <<>>
         ]_vars

\* a Down that came after the quit command in the same list has moved the
\* selection from 0 to 1
C18_Witness ==
    /\ ~game_running
    /\ pc = "events"
    /\ events = <<>>
    /\ trail = <<[event |-> K_DOWN, selected_option |-> 0]>>
    /\ selected_option = 1

====
